---------------------------- MODULE Spec2Model ----------------------------
(***************************************************************************)
(* The selector compiler of xmlsql-wasm (src/src/selector.rs): css_to_sql  *)
(* = tokenize followed by generate_sql.  A selector is a sequence of       *)
(* one-character strings.  One behaviour of the model is one call of       *)
(* css_to_sql: every iteration of the tokenize loop and every iteration of *)
(* the generate_sql loop is one step.                                      *)
(*                                                                         *)
(* The loader (src/src/parser.rs, insert_document of src/src/lib.rs) is    *)
(* the second machine of the module, SpecLoad: a behaviour is a sequence   *)
(* of load_xml / load_html calls on one database, every statement sent to  *)
(* the database being one step.                                            *)
(***************************************************************************)
EXTENDS Naturals, Sequences, FiniteSets, TLC

VARIABLES
    selector,       \* the argument of css_to_sql
    pc,             \* "idle" | "call" | "tokenize" | "generate" | "done"
    chars,          \* tokenize: the characters of selector.trim()
    pos,            \* tokenize: index of the character chars.peek() returns
    tokens,         \* tokenize: the local Vec<Token>
    tokenized,      \* the value tokenize returned
    i,              \* generate_sql: index of the token being consumed (1-based)
    join_count,     \* generate_sql: the join counter
    current_table,  \* generate_sql: the current anchor alias
    sql_joins,      \* generate_sql: the JOIN clauses appended so far
    where_clauses,  \* generate_sql: the predicates pushed so far
    result,         \* the value css_to_sql returned
    load_pc,        \* "idle" | "begin" | "doc" | "nodes" | "commit"
    document,       \* the document tree the parser library built
    nodes,          \* insert_document: the Vec<NodeData> of the parser
    doc_id,         \* insert_document: the id of the documents row
    id_map,         \* insert_document: parser id -> nodes row id
    at,             \* insert_document: index of the node the loop is at
    db,             \* the database: rows of documents and of nodes
    txn,            \* the open transaction: the database as BEGIN found it
    issued,         \* the transaction statements the call has executed
    loaded          \* the value load_xml / load_html returned

vars == <<selector, pc, chars, pos, tokens, tokenized, i, join_count,
          current_table, sql_joins, where_clauses, result,
          load_pc, document, nodes, doc_id, id_map, at, db, txn, issued, loaded>>

lexVars == <<chars, pos, tokens, tokenized>>
genVars == <<i, join_count, current_table, sql_joins, where_clauses>>
selVars == <<selector, pc, lexVars, genVars, result>>
insertVars == <<document, nodes, doc_id, id_map, at>>
loadVars == <<load_pc, insertVars, db, txn, issued, loaded>>

---------------------------------------------------------------------------
(* Bounds of the model. *)

\* Longest selector enumerated over the whole alphabet.
MaxLen == 3
\* Longest body enumerated after an opening bracket over the attribute alphabet.
MaxAttrLen == 5
\* The tokenize loop is cut off once the token list has this many tokens.
MaxTokens == 8

---------------------------------------------------------------------------
(* Characters. *)

Letters == {"a", "b", "c", "d", "e", "f", "h", "i", "m", "n", "o", "p", "r", "t", "v"}
Digits == {"0", "1", "2"}

\* char::is_alphabetic
IsAlphabetic(ch) == ch \in Letters

\* char::is_alphanumeric
IsAlphanumeric(ch) == ch \in Letters \cup Digits

\* char::is_whitespace (also what str::trim strips)
IsWhitespace(ch) == ch \in {" ", "\t", "\n", "\r", "\f"}

\* The pattern of tokenize's first match arm: ' ' | '\t' | '\n'
IsArmWhitespace(ch) == ch \in {" ", "\t", "\n"}

\* The test of collect_identifier's loop.
IsIdentChar(ch) == IsAlphanumeric(ch) \/ ch = "-" \/ ch = "_"

---------------------------------------------------------------------------
(* Values. *)

None == [some |-> FALSE, v |-> <<>>]
Some(x) == [some |-> TRUE, v |-> x]

\* Token: every variant carries the same fields, unused ones are blank.
TagName(s) == [kind |-> "TagName", name |-> s, value |-> None, operator |-> "-"]
Class(s) == [kind |-> "Class", name |-> s, value |-> None, operator |-> "-"]
Id(s) == [kind |-> "Id", name |-> s, value |-> None, operator |-> "-"]
Attribute(n, val, op) == [kind |-> "Attribute", name |-> n, value |-> val, operator |-> op]
Combinator(c) == [kind |-> "Combinator", name |-> <<>>, value |-> None, operator |-> c]

\* The error values of this file are Strings built by format!/to_string; no
\* SelectorError is ever constructed.  variant is the Rust constructor of the
\* error value, msg the message text, ch the character formatted into it.
ErrString(m, c) == [variant |-> "String", msg |-> m, ch |-> c]
NoErr == [variant |-> "-", msg |-> "-", ch |-> ""]

---------------------------------------------------------------------------
(* Pure helpers of the lexer. *)

RECURSIVE TrimStart(_)
TrimStart(s) ==
    IF s # <<>> /\ IsWhitespace(Head(s)) THEN TrimStart(Tail(s)) ELSE s

RECURSIVE TrimEnd(_)
TrimEnd(s) ==
    IF s # <<>> /\ IsWhitespace(s[Len(s)])
    THEN TrimEnd(SubSeq(s, 1, Len(s) - 1))
    ELSE s

\* str::trim
Trim(s) == TrimEnd(TrimStart(s))

\* collect_identifier: the position of the first character it leaves.
RECURSIVE IdentEnd(_, _)
IdentEnd(cs, p) ==
    IF p <= Len(cs) /\ IsIdentChar(cs[p]) THEN IdentEnd(cs, p + 1) ELSE p

\* collect_identifier: the identifier it returns, started at p.
CollectIdentifier(cs, p) == SubSeq(cs, p, IdentEnd(cs, p) - 1)

\* The "skip whitespace" loops: the position of the first character left.
RECURSIVE SkipWhitespace(_, _)
SkipWhitespace(cs, p) ==
    IF p <= Len(cs) /\ IsWhitespace(cs[p]) THEN SkipWhitespace(cs, p + 1) ELSE p

\* The quoted-value loop: the position of the closing quote, Len+1 if none.
RECURSIVE QuoteEnd(_, _, _)
QuoteEnd(cs, p, quote) ==
    IF p <= Len(cs) /\ cs[p] # quote THEN QuoteEnd(cs, p + 1, quote) ELSE p

---------------------------------------------------------------------------
(* parse_attribute, called with the iterator just after the '['. *)

NoToken == [kind |-> "-", name |-> <<>>, value |-> None, operator |-> "-"]
AttrOk(tok, next) == [ok |-> TRUE, token |-> tok, next |-> next, err |-> NoErr]
AttrErr(e) == [ok |-> FALSE, token |-> NoToken, next |-> 0, err |-> e]

\* The characters of the operator arm: '=' | '~' | '^' | '$' | '*'
IsOperatorChar(ch) == ch \in {"=", "~", "^", "$", "*"}

\* AttrOperator with the operators of '^' and '$' exchanged.
AttrOperatorExchanged(op_char, hasEq) ==
    IF hasEq
    THEN CASE op_char = "~" -> "WordMatch"
           [] op_char = "^" -> "EndsWith"
           [] op_char = "$" -> "StartsWith"
           [] op_char = "*" -> "Contains"
           [] OTHER -> "Equals"
    ELSE IF op_char = "=" THEN "Equals" ELSE "Invalid"

\* The operator chosen after op_char; hasEq says the next character is '='
\* (and is consumed).  "Invalid" stands for the early return of the else branch.
AttrOperator(op_char, hasEq) ==
    IF hasEq
    THEN CASE op_char = "~" -> "WordMatch"
           [] op_char = "^" -> "StartsWith"
           [] op_char = "$" -> "EndsWith"
           [] op_char = "*" -> "Contains"
           [] OTHER -> "Equals"
    ELSE IF op_char = "=" THEN "Equals" ELSE "Invalid"

\* "Parse value", entered with a character at p: the value and the position
\* left.  A quoted value runs to the closing quote or, without one, to the
\* end of the input.
AttrValue(cs, p) ==
    IF cs[p] = "\"" \/ cs[p] = "'"
    THEN LET q == QuoteEnd(cs, p + 1, cs[p])
         IN  [val |-> SubSeq(cs, p + 1, q - 1),
              next |-> IF q <= Len(cs) THEN q + 1 ELSE q]
    ELSE [val |-> CollectIdentifier(cs, p), next |-> IdentEnd(cs, p)]

\* ClosingBracket with the end of the input taken for a closing bracket.
ClosingBracketOrEnd(cs, p) == p > Len(cs) \/ cs[p] = "]"

\* "Expect closing bracket": chars.next() == Some(']')
ClosingBracket(cs, p) == p <= Len(cs) /\ cs[p] = "]"

\* The operator arm, op_char at p.
AttrWithOperator(cs, name, p) ==
    LET op_char == cs[p]
        hasEq == p + 1 <= Len(cs) /\ cs[p + 1] = "="
        operator == AttrOperator(op_char, hasEq)
        v == SkipWhitespace(cs, IF hasEq THEN p + 2 ELSE p + 1)
    IN  IF operator = "Invalid"
        THEN AttrErr(ErrString("Invalid attribute operator", ""))
        ELSE IF v > Len(cs)
        THEN AttrErr(ErrString("Expected attribute value", ""))
        ELSE LET value == AttrValue(cs, v)
             IN  IF ClosingBracket(cs, value.next)
                 THEN AttrOk(Attribute(name, Some(value.val), operator),
                             value.next + 1)
                 ELSE AttrErr(ErrString("Expected closing bracket", ""))

ParseAttribute(cs, p) ==
    LET name == CollectIdentifier(cs, p)
        q == SkipWhitespace(cs, IdentEnd(cs, p))
    IN  IF q > Len(cs)
        THEN AttrErr(ErrString("Unexpected end of attribute selector", ""))
        ELSE IF cs[q] = "]"
        THEN AttrOk(Attribute(name, None, "Exists"), q + 1)
        ELSE IF IsOperatorChar(cs[q])
        THEN AttrWithOperator(cs, name, q)
        ELSE AttrErr(ErrString("Unexpected character in attribute selector", cs[q]))

---------------------------------------------------------------------------
(* The selectors css_to_sql is called with. *)

\* One or two characters of every class the lexer tells apart.
Alphabet ==
    {"a", "b", "1", "-", " ", "\r", ">", "+", "~", ".", "#", "[", "]", "=",
     "*", "'", ":"}

\* The characters that matter after an opening bracket.
AttrAlphabet == {"a", " ", "=", "~", "]", "'", ":"}

SeqsUpTo(S, n) == UNION {[1..k -> S] : k \in 0..n}

ShortSelectors == SeqsUpTo(Alphabet, MaxLen)

AttrSelectors == {<<"[">> \o s : s \in SeqsUpTo(AttrAlphabet, MaxAttrLen)}

Corpus == {
    \* the selectors of the unit tests
    <<"d", "i", "v">>,
    <<".", "c", "o", "n", "t", "a", "i", "n", "e", "r">>,
    <<"#", "m", "a", "i", "n">>,
    <<"[", "d", "a", "t", "a", "-", "i", "d", "]">>,
    <<"[", "h", "r", "e", "f", "=", "'", "#", "'", "]">>,
    <<"d", "i", "v", ".", "c", "o", "n", "t", "a", "i", "n", "e", "r", " ", ">", " ", "p", "#", "i", "n", "t", "r", "o">>,
    \* combinators with and without whitespace around them
    <<"a", " ", ">", " ", "b">>,
    <<"a", ">", " ", "b">>,
    <<"a", " ", ">", "b">>,
    <<"a", ">", ">", "b">>,
    <<"a", " ", ">", " ", ">", " ", "b">>,
    <<"a", " ", "+", " ", "b">>,
    <<"a", " ", "~", " ", "b">>,
    <<"a", " ", "+", " ", "~", " ", "b">>,
    <<"a", " ", "b", " ", ">", " ", "c">>,
    \* attribute clauses, one for each operator spelling
    <<"[", "a", "=", "b", "]">>,
    <<"[", "a", "~", "=", "b", "]">>,
    <<"[", "a", "^", "=", "b", "]">>,
    <<"[", "a", "$", "=", "b", "]">>,
    <<"[", "a", "*", "=", "b", "]">>,
    <<"[", "a", "=", "=", "b", "]">>,
    <<"[", "a", "=", "\"", "b", "\"", "]">>,
    <<"[", "a", " ", "=", " ", "'", "b", "'", " ", "]">>,
    <<"[", "a", " ", "~", "=", " ", "b", "]">>,
    \* whitespace other than the space
    <<"a", "\t", "b">>,
    <<"a", "\n", "b">>,
    <<"a", "\f", "b">>,
    <<"a", " ", "\r", " ", "b">>,
    \* characters outside the grammar
    <<"a", ":", "b">>,
    <<"a", ",", "b">>,
    <<"a", " ", ">", " ", "b", ":", "c">>,
    \* a single quote in a name and in a value
    <<".", "o", "'", "b", "r", "i", "e", "n">>,
    <<"#", "o", "'", "b">>,
    <<"o", "'", "b">>,
    <<"[", "a", "=", "\"", "o", "'", "b", "\"", "]">>,
    <<"[", "a", "~", "=", "\"", "'", "\"", "]">>,
    <<"[", "a", "*", "=", "\"", "'", "'", "\"", "]">>,
    \* an underscore in a class name
    <<".", "a", "_", "b">>,
    <<".", "_">>
}

Selectors == ShortSelectors \cup AttrSelectors \cup Corpus

---------------------------------------------------------------------------
(* Returned values. *)

\* Table aliases: n<k> over nodes, a<k> over attributes (AttrAliasBefore:
\* the alias numbered with the counter as it was before the increment).
NodeAlias(k) == [t |-> "n", k |-> k]
AttrAliasBefore(k) == [t |-> "a", k |-> k - 1]
AttrAlias(k) == [t |-> "a", k |-> k]
NoAlias == [t |-> "-", k |-> 0]

\* The query text, kept as its parts.
NoQuery == [distinct |-> FALSE, columns |-> NoAlias, from |-> NoAlias,
            joins |-> <<>>, where |-> <<>>]

NoResult == [status |-> "none", sql |-> NoQuery, err |-> NoErr]
Ok(q) == [status |-> "Ok", sql |-> q, err |-> NoErr]
Err(e) == [status |-> "Err", sql |-> NoQuery, err |-> e]

NotTokenized == [status |-> "none", tokens |-> <<>>, err |-> NoErr]
TokensOk(ts) == [status |-> "Ok", tokens |-> ts, err |-> NoErr]
TokensErr(e) == [status |-> "Err", tokens |-> <<>>, err |-> e]

\* A parser id or a row id that is absent: Option::None, SQL NULL (the ids
\* are counted from 1).
NULL == 0

\* The tables documents and nodes of a database just opened.
EmptyDb == [documents |-> {}, nodes |-> {}]

\* No transaction is open.
NoTxn == [open |-> FALSE, before |-> EmptyDb]

\* What load_xml / load_html return.
NotLoaded == [status |-> "none", doc_id |-> NULL, err |-> ""]
Loaded(id) == [status |-> "Ok", doc_id |-> id, err |-> ""]
LoadFailed(e) == [status |-> "Err", doc_id |-> NULL, err |-> e]

\* No load has been called on a database just opened.
NoLoad ==
    /\ load_pc = "idle"
    /\ document = <<>>
    /\ nodes = <<>>
    /\ doc_id = NULL
    /\ id_map = <<>>
    /\ at = 1
    /\ db = EmptyDb
    /\ txn = NoTxn
    /\ issued = <<>>
    /\ loaded = NotLoaded

---------------------------------------------------------------------------
(* css_to_sql and the tokenize loop. *)

Init ==
    /\ selector \in Selectors
    /\ pc = "call"
    /\ chars = <<>>
    /\ pos = 1
    /\ tokens = <<>>
    /\ tokenized = NotTokenized
    /\ i = 1
    /\ join_count = 1
    /\ current_table = NodeAlias(1)
    /\ sql_joins = <<>>
    /\ where_clauses = <<>>
    /\ result = NoResult
    /\ NoLoad

\* css_to_sql calls tokenize, which trims the selector.
CssToSql ==
    /\ pc = "call"
    /\ pc' = "tokenize"
    /\ chars' = Trim(selector)
    /\ pos' = 1
    /\ tokens' = <<>>
    /\ UNCHANGED <<loadVars, selector, tokenized, genVars, result>>

\* chars.peek() is Some(ch)
Peeking == pc = "tokenize" /\ pos <= Len(chars)

\* tokens.last().map_or(false, |t| matches!(t, Token::Combinator(_)))
LastIsCombinator(ts) == ts # <<>> /\ ts[Len(ts)].kind = "Combinator"

\* The tokens after the whitespace arm, the run having ended before p.
AfterWhitespace(ts, cs, p) ==
    IF /\ p <= Len(cs)
       /\ cs[p] \notin {">", "+", "~"}
       /\ ~LastIsCombinator(ts)
    THEN Append(ts, Combinator("Descendant"))
    ELSE ts

\* One iteration of the loop that goes on: the tokens and the position it leaves.
Advance(ts, p) ==
    /\ tokens' = ts
    /\ pos' = p
    /\ UNCHANGED <<loadVars, selector, pc, chars, tokenized, genVars, result>>

\* tokenize returns Err(e), which css_to_sql's `?` returns to its caller.
Fail(e) ==
    /\ pc' = "done"
    /\ tokenized' = TokensErr(e)
    /\ result' = Err(e)
    /\ UNCHANGED <<loadVars, selector, chars, pos, tokens, genVars>>

LexWhitespace ==
    /\ Peeking
    /\ IsArmWhitespace(chars[pos])
    /\ LET p == SkipWhitespace(chars, pos + 1)
       IN  Advance(AfterWhitespace(tokens, chars, p), p)

LexChild ==
    /\ Peeking
    /\ chars[pos] = ">"
    /\ Advance(Append(tokens, Combinator("Child")), pos + 1)

LexNextSibling ==
    /\ Peeking
    /\ chars[pos] = "+"
    /\ Advance(Append(tokens, Combinator("NextSibling")), pos + 1)

LexGeneralSibling ==
    /\ Peeking
    /\ chars[pos] = "~"
    /\ Advance(Append(tokens, Combinator("GeneralSibling")), pos + 1)

LexClass ==
    /\ Peeking
    /\ chars[pos] = "."
    /\ Advance(Append(tokens, Class(CollectIdentifier(chars, pos + 1))),
               IdentEnd(chars, pos + 1))

LexId ==
    /\ Peeking
    /\ chars[pos] = "#"
    /\ Advance(Append(tokens, Id(CollectIdentifier(chars, pos + 1))),
               IdentEnd(chars, pos + 1))

LexAttribute ==
    /\ Peeking
    /\ chars[pos] = "["
    /\ LET r == ParseAttribute(chars, pos + 1)
       IN  IF r.ok THEN Advance(Append(tokens, r.token), r.next) ELSE Fail(r.err)

\* The guard of the tag arm; the arms before it have taken their characters.
IsTagStart(ch) == IsAlphabetic(ch) \/ ch = "*"

\* The tokens after the tag arm collected tag_name.
AfterTag(ts, tag_name) ==
    IF tag_name # <<"*">> THEN Append(ts, TagName(tag_name)) ELSE ts

LexTag ==
    /\ Peeking
    /\ IsTagStart(chars[pos])
    /\ Len(tokens) < MaxTokens
    /\ Advance(AfterTag(tokens, CollectIdentifier(chars, pos)),
               IdentEnd(chars, pos))

\* The characters one of the arms above takes.
HasArm(ch) ==
    \/ IsArmWhitespace(ch)
    \/ ch \in {">", "+", "~", ".", "#", "["}
    \/ IsTagStart(ch)

LexUnexpected ==
    /\ Peeking
    /\ ~HasArm(chars[pos])
    /\ Fail(ErrString("Unexpected character", chars[pos]))

\* chars.peek() is None: tokenize returns Ok(tokens), generate_sql is entered.
LexEnd ==
    /\ pc = "tokenize"
    /\ pos > Len(chars)
    /\ pc' = "generate"
    /\ tokenized' = TokensOk(tokens)
    /\ UNCHANGED <<loadVars, selector, chars, pos, tokens, genVars, result>>

---------------------------------------------------------------------------
(* generate_sql. *)

\* escape_sql: every single quote is doubled.
\* The text as it stands, no quote doubled.
Verbatim(s) == s

RECURSIVE escape_sql(_)
escape_sql(s) ==
    IF s = <<>> THEN <<>>
    ELSE (IF Head(s) = "'" THEN <<"'", "'">> ELSE <<Head(s)>>) \o escape_sql(Tail(s))

\* "JOIN attributes <alias> ON <alias>.node_id = <anchor>.id"
AttrJoin(alias, anchor) ==
    [table |-> "attributes", alias |-> alias, on |-> "node_id", anchor |-> anchor]

\* "JOIN nodes <alias> ON <alias>.parent_id = <anchor>.id"
ChildJoin(alias, anchor) ==
    [table |-> "nodes", alias |-> alias, on |-> "parent_id", anchor |-> anchor]

\* "JOIN nodes <alias> ON <alias>.id IN (WITH RECURSIVE descendants ...)", the
\* closure seeded with the nodes whose parent_id is <anchor>.id
DescendantJoin(alias, anchor) ==
    [table |-> "nodes", alias |-> alias, on |-> "descendants", anchor |-> anchor]

\* One predicate of the WHERE clause: <alias>.<column> <op> '<lit>', lit being
\* the text written between the quotes.  op "=" is equality; "word" the
\* four-way OR (= 'x', LIKE '% x', LIKE 'x %', LIKE '% x %'); "contains",
\* "prefix" and "suffix" are LIKE '%x%', LIKE 'x%' and LIKE '%x'.
Pred(alias, column, op, lit) ==
    [alias |-> alias, column |-> column, op |-> op, lit |-> lit]

\* The value predicate of an Attribute token with a value; none for Exists.
AttrCondition(alias, operator, val) ==
    CASE operator = "Exists" -> <<>>
      [] operator = "Equals" -> <<Pred(alias, "value", "=", escape_sql(val))>>
      [] operator = "Contains" -> <<Pred(alias, "value", "contains", escape_sql(val))>>
      [] operator = "StartsWith" -> <<Pred(alias, "value", "prefix", escape_sql(val))>>
      [] operator = "EndsWith" -> <<Pred(alias, "value", "suffix", escape_sql(val))>>
      [] operator = "WordMatch" -> <<Pred(alias, "value", "word", escape_sql(val))>>

\* tokens.is_empty(): "SELECT * FROM nodes"
SelectAll ==
    [distinct |-> FALSE, columns |-> NoAlias, from |-> NoAlias,
     joins |-> <<>>, where |-> <<>>]

\* SelectDistinct with the columns of n1 whatever the anchor.
SelectDistinctFirst(anchor, joins, clauses) ==
    [distinct |-> TRUE, columns |-> NodeAlias(1), from |-> NodeAlias(1),
     joins |-> joins, where |-> clauses]

\* "SELECT DISTINCT <anchor>.* FROM nodes n1 <joins> [WHERE <clauses>]"
SelectDistinct(anchor, joins, clauses) ==
    [distinct |-> TRUE, columns |-> anchor, from |-> NodeAlias(1),
     joins |-> joins, where |-> clauses]

\* generate_sql returns r, and so does css_to_sql.
Return(r) ==
    /\ pc' = "done"
    /\ result' = r
    /\ UNCHANGED <<loadVars, selector, lexVars, genVars>>

\* The loop of generate_sql is at a token.
AtToken == pc = "generate" /\ i <= Len(tokens)

\* One iteration that goes on to the next token.
Consume(count, table, joins, clauses) ==
    /\ i' = i + 1
    /\ join_count' = count
    /\ current_table' = table
    /\ sql_joins' = joins
    /\ where_clauses' = clauses
    /\ UNCHANGED <<loadVars, selector, pc, lexVars, result>>

GenEmpty ==
    /\ pc = "generate"
    /\ tokens = <<>>
    /\ Return(Ok(SelectAll))

GenTagName ==
    /\ AtToken
    /\ tokens[i].kind = "TagName"
    /\ Consume(join_count, current_table, sql_joins,
               Append(where_clauses,
                      Pred(current_table, "tag_name", "=", escape_sql(tokens[i].name))))

GenClass ==
    /\ AtToken
    /\ tokens[i].kind = "Class"
    /\ LET attr_alias == AttrAlias(join_count + 1)
       IN  Consume(join_count + 1, current_table,
                   Append(sql_joins, AttrJoin(attr_alias, current_table)),
                   where_clauses \o
                       <<Pred(attr_alias, "name", "=", <<"c", "l", "a", "s", "s">>),
                         Pred(attr_alias, "value", "word", escape_sql(tokens[i].name))>>)

GenId ==
    /\ AtToken
    /\ tokens[i].kind = "Id"
    /\ LET attr_alias == AttrAlias(join_count + 1)
       IN  Consume(join_count + 1, current_table,
                   Append(sql_joins, AttrJoin(attr_alias, current_table)),
                   where_clauses \o
                       <<Pred(attr_alias, "name", "=", <<"i", "d">>),
                         Pred(attr_alias, "value", "=", escape_sql(tokens[i].name))>>)

GenAttribute ==
    /\ AtToken
    /\ tokens[i].kind = "Attribute"
    /\ LET attr_alias == AttrAlias(join_count + 1)
           token == tokens[i]
       IN  Consume(join_count + 1, current_table,
                   Append(sql_joins, AttrJoin(attr_alias, current_table)),
                   Append(where_clauses,
                          Pred(attr_alias, "name", "=", escape_sql(token.name)))
                       \o (IF token.value.some
                           THEN AttrCondition(attr_alias, token.operator, token.value.v)
                           ELSE <<>>))

\* No combinator is taken for the last token.
NeverLast(k, ts) == FALSE

\* `i + 1 >= tokens.len()` of the Combinator arm, i counted from 1 here.
NothingFollows(k, ts) == k >= Len(ts)

AtCombinator(c) ==
    /\ AtToken
    /\ tokens[i].kind = "Combinator"
    /\ tokens[i].operator = c

GenCombinatorLast ==
    /\ AtToken
    /\ tokens[i].kind = "Combinator"
    /\ NothingFollows(i, tokens)
    /\ Return(Err(ErrString("Combinator must be followed by a selector", "")))

GenChild ==
    /\ AtCombinator("Child")
    /\ ~NothingFollows(i, tokens)
    /\ LET next_table == NodeAlias(join_count + 1)
       IN  Consume(join_count + 1, next_table,
                   Append(sql_joins, ChildJoin(next_table, current_table)),
                   where_clauses)

GenDescendant ==
    /\ AtCombinator("Descendant")
    /\ ~NothingFollows(i, tokens)
    /\ LET next_table == NodeAlias(join_count + 1)
       IN  Consume(join_count + 1, next_table,
                   Append(sql_joins, DescendantJoin(next_table, current_table)),
                   where_clauses)

GenNextSibling ==
    /\ AtCombinator("NextSibling")
    /\ ~NothingFollows(i, tokens)
    /\ Return(Err(ErrString("Next sibling combinator (+) not yet supported", "")))

GenGeneralSibling ==
    /\ AtCombinator("GeneralSibling")
    /\ ~NothingFollows(i, tokens)
    /\ Return(Err(ErrString("General sibling combinator (~) not yet supported", "")))

\* The loop is over: the query is assembled and returned.
GenFinish ==
    /\ pc = "generate"
    /\ tokens # <<>>
    /\ i > Len(tokens)
    /\ Return(Ok(SelectDistinct(current_table, sql_joins, where_clauses)))

---------------------------------------------------------------------------

Next ==
    \/ CssToSql
    \/ LexWhitespace
    \/ LexChild
    \/ LexNextSibling
    \/ LexGeneralSibling
    \/ LexClass
    \/ LexId
    \/ LexAttribute
    \/ LexTag
    \/ LexUnexpected
    \/ LexEnd
    \/ GenEmpty
    \/ GenTagName
    \/ GenClass
    \/ GenId
    \/ GenAttribute
    \/ GenCombinatorLast
    \/ GenChild
    \/ GenDescendant
    \/ GenNextSibling
    \/ GenGeneralSibling
    \/ GenFinish

Spec == Init /\ [][Next]_vars

---------------------------------------------------------------------------
(* The parsers: parse_xml_to_nodes and parse_html_to_nodes (parser.rs).  A *)
(* document is the tree the parsing library built: its nodes in document   *)
(* order, each with the index of its parent (NULL for the root element)    *)
(* and whether it is an element (text and comments are not).               *)

\* Most nodes of a document.
MaxDomNodes == 4

DomNode(parent, element) == [parent |-> parent, element |-> element]

\* Node k of doc is node j or lies below it.
RECURSIVE Under(_, _, _)
Under(doc, k, j) ==
    IF k = j THEN TRUE
    ELSE IF doc[k].parent = NULL THEN FALSE
    ELSE Under(doc, doc[k].parent, j)

\* The documents of m nodes: the root element, then each node a child of an
\* element that is still open when the node is read.
RECURSIVE DocumentsOf(_)
DocumentsOf(m) ==
    IF m = 1 THEN {<<DomNode(NULL, TRUE)>>}
    ELSE UNION {{Append(doc, DomNode(parent, element)) :
                     parent \in {k \in 1..Len(doc) :
                                    doc[k].element /\ Under(doc, Len(doc), k)},
                     element \in BOOLEAN} :
                doc \in DocumentsOf(m - 1)}

XmlDocuments == UNION {DocumentsOf(m) : m \in 1..MaxDomNodes}

\* The HTML parser always builds html, head and body elements.
HtmlDocuments ==
    {doc \in XmlDocuments :
         Cardinality({k \in 1..Len(doc) : doc[k].parent = 1 /\ doc[k].element}) >= 2}

\* node.children(): the children of node k from index from on, in document
\* order.
RECURSIVE children(_, _, _)
children(doc, k, from) ==
    IF from > Len(doc) THEN <<>>
    ELSE (IF doc[from].parent = k THEN <<from>> ELSE <<>>) \o children(doc, k, from + 1)

\* NodeData, without the tag name, the text and the attributes.
NodeData(id, parent_id, depth) == [id |-> id, parent_id |-> parent_id, depth |-> depth]

\* `nodes` and `node_id` as parse_xml_to_nodes declares them.
NoNodes == [nodes |-> <<>>, node_id |-> 1]

\* traverse_xml, and its loop over the children that are elements.
RECURSIVE traverse_xml(_, _, _, _, _)
RECURSIVE each_child_xml(_, _, _, _, _)
traverse_xml(doc, node, parent_id, depth, acc) ==
    IF doc[node].element
    THEN LET current_id == acc.node_id
         IN  each_child_xml(doc, children(doc, node, 1), Some(current_id), depth + 1,
                            [nodes |-> Append(acc.nodes,
                                              NodeData(current_id, parent_id, depth)),
                             node_id |-> acc.node_id + 1])
    ELSE acc

each_child_xml(doc, cs, parent_id, depth, acc) ==
    IF cs = <<>> THEN acc
    ELSE each_child_xml(doc, Tail(cs), parent_id, depth,
                        IF doc[Head(cs)].element
                        THEN traverse_xml(doc, Head(cs), parent_id, depth, acc)
                        ELSE acc)

parse_xml_to_nodes(doc) == traverse_xml(doc, 1, None, 0, NoNodes).nodes

\* traverse_html, and its loop over all the children.
RECURSIVE traverse_html(_, _, _, _, _)
RECURSIVE each_child_html(_, _, _, _, _)
traverse_html(doc, node, parent_id, depth, acc) ==
    IF doc[node].element
    THEN LET current_id == acc.node_id
         IN  each_child_html(doc, children(doc, node, 1), Some(current_id), depth + 1,
                             [nodes |-> Append(acc.nodes,
                                               NodeData(current_id, parent_id, depth)),
                              node_id |-> acc.node_id + 1])
    ELSE acc

each_child_html(doc, cs, parent_id, depth, acc) ==
    IF cs = <<>> THEN acc
    ELSE each_child_html(doc, Tail(cs), parent_id, depth,
                         traverse_html(doc, Head(cs), parent_id, depth, acc))

parse_html_to_nodes(doc) == traverse_html(doc, 1, None, 0, NoNodes).nodes

---------------------------------------------------------------------------
(* load_xml, load_html and insert_document (lib.rs). *)

\* Most documents stored in the database.
MaxDocuments == 2

\* sqlite3_last_insert_rowid after an insert with a NULL id: one more than
\* the greatest id of the table.
RowId(rows) ==
    IF rows = {} THEN 1
    ELSE (CHOOSE r \in rows : \A q \in rows : q.id <= r.id).id + 1

\* The call returns r; its locals are gone.
ReturnLoad(r) ==
    /\ load_pc' = "idle"
    /\ loaded' = r
    /\ document' = <<>>
    /\ nodes' = <<>>
    /\ doc_id' = NULL
    /\ id_map' = <<>>
    /\ at' = 1
    /\ UNCHANGED selVars

\* A statement is added to those the call has executed.
Issue(sql, ok) == issued' = Append(issued, [sql |-> sql, ok |-> ok])

\* `let _ = self.exec_internal("ROLLBACK"); return Err(e);` with the database
\* at now: the rollback restores the database BEGIN found, unless it fails.
RollbackAndReturn(now, e) ==
    \E undone \in BOOLEAN :
        /\ db' = IF undone THEN txn.before ELSE now
        /\ txn' = IF undone THEN NoTxn ELSE txn
        /\ Issue("ROLLBACK", undone)
        /\ ReturnLoad(LoadFailed(e))

\* The call goes on at `to`.
GoOn(to) ==
    /\ load_pc' = to
    /\ UNCHANGED <<selVars, document, nodes, loaded>>

\* load_xml: the content parses to doc, or is rejected by the XML parser.
LoadXml ==
    /\ load_pc = "idle"
    /\ Cardinality(db.documents) < MaxDocuments
    /\ \E doc \in XmlDocuments :
           /\ document' = doc
           /\ nodes' = parse_xml_to_nodes(doc)
    /\ load_pc' = "begin"
    /\ issued' = <<>>
    /\ loaded' = NotLoaded
    /\ UNCHANGED <<selVars, doc_id, id_map, at, db, txn>>

LoadXmlRejected ==
    /\ load_pc = "idle"
    /\ issued' = <<>>
    /\ loaded' = LoadFailed("XML parsing error")
    /\ UNCHANGED <<selVars, load_pc, insertVars, db, txn>>

\* load_html: the HTML parser builds a document of any content.
LoadHtml ==
    /\ load_pc = "idle"
    /\ Cardinality(db.documents) < MaxDocuments
    /\ \E doc \in HtmlDocuments :
           /\ document' = doc
           /\ nodes' = parse_html_to_nodes(doc)
    /\ load_pc' = "begin"
    /\ issued' = <<>>
    /\ loaded' = NotLoaded
    /\ UNCHANGED <<selVars, doc_id, id_map, at, db, txn>>

\* self.exec_internal("BEGIN TRANSACTION")?  It fails inside a transaction.
Begin ==
    /\ load_pc = "begin"
    /\ \E ok \in BOOLEAN :
           /\ txn.open => ~ok
           /\ Issue("BEGIN", ok)
           /\ IF ok
              THEN /\ txn' = [open |-> TRUE, before |-> db]
                   /\ GoOn("doc")
                   /\ UNCHANGED <<doc_id, id_map, at, db>>
              ELSE /\ ReturnLoad(LoadFailed("BEGIN"))
                   /\ UNCHANGED <<db, txn>>

\* insert_doc_record, and `let mut id_map = HashMap::new()`.
InsertDocRecord ==
    /\ load_pc = "doc"
    /\ \/ LET id == RowId(db.documents)
          IN  /\ db' = [db EXCEPT !.documents =
                             @ \cup {[id |-> id, root_node_id |-> NULL]}]
              /\ doc_id' = id
              /\ id_map' = <<>>
              /\ at' = 1
              /\ GoOn("nodes")
              /\ UNCHANGED <<txn, issued>>
       \/ RollbackAndReturn(db, "Failed to insert document")

\* node.parent_id.and_then(|pid| id_map.get(&pid).copied())
NoParent(node, map) == NULL

db_parent_id(node, map) ==
    IF node.parent_id.some /\ node.parent_id.v \in DOMAIN map
    THEN map[node.parent_id.v]
    ELSE NULL

\* The row insert_node_record inserts for node.
NodeRow(id, document_id, node, parent_id) ==
    [id |-> id, document_id |-> document_id, parent_id |-> parent_id,
     depth |-> node.depth]

\* One iteration of `for node in nodes`: insert_node_record returns the new
\* row id, or fails before the row is inserted, or after it (an attribute).
InsertNode ==
    /\ load_pc = "nodes"
    /\ at <= Len(nodes)
    /\ LET node == nodes[at]
           new_id == RowId(db.nodes)
           row == NodeRow(new_id, doc_id, node, db_parent_id(node, id_map))
           inserted == [db EXCEPT !.nodes = @ \cup {row}]
       IN  \/ /\ db' = inserted
              /\ id_map' = [k \in DOMAIN id_map \cup {node.id} |->
                               IF k = node.id THEN new_id ELSE id_map[k]]
              /\ at' = at + 1
              /\ GoOn("nodes")
              /\ UNCHANGED <<doc_id, txn, issued>>
           \/ RollbackAndReturn(db, "Failed to insert node")
           \/ RollbackAndReturn(inserted, "Failed to insert attr")

\* After the loop: "UPDATE documents SET root_node_id = .. WHERE id = .."
UpdateRoot ==
    /\ load_pc = "nodes"
    /\ at > Len(nodes)
    /\ IF nodes # <<>> /\ nodes[1].id \in DOMAIN id_map
       THEN \/ /\ db' = [db EXCEPT !.documents =
                              {IF d.id = doc_id
                               THEN [d EXCEPT !.root_node_id = id_map[nodes[1].id]]
                               ELSE d : d \in @}]
               /\ GoOn("commit")
               /\ UNCHANGED <<doc_id, id_map, at, txn, issued>>
            \/ RollbackAndReturn(db, "UPDATE")
       ELSE /\ GoOn("commit")
            /\ UNCHANGED <<doc_id, id_map, at, db, txn, issued>>

\* self.exec_internal("COMMIT")?; Ok(doc_id as u64)
Commit ==
    /\ load_pc = "commit"
    /\ \E ok \in BOOLEAN :
           /\ Issue("COMMIT", ok)
           /\ txn' = IF ok THEN NoTxn ELSE txn
           /\ ReturnLoad(IF ok THEN Loaded(doc_id) ELSE LoadFailed("COMMIT"))
           /\ UNCHANGED db

\* No css_to_sql is called while documents are loaded.
NoCall ==
    /\ selector = <<>>
    /\ pc = "idle"
    /\ chars = <<>>
    /\ pos = 1
    /\ tokens = <<>>
    /\ tokenized = NotTokenized
    /\ i = 1
    /\ join_count = 1
    /\ current_table = NodeAlias(1)
    /\ sql_joins = <<>>
    /\ where_clauses = <<>>
    /\ result = NoResult

InitLoad == NoLoad /\ NoCall

NextLoad ==
    \/ LoadXml
    \/ LoadXmlRejected
    \/ LoadHtml
    \/ Begin
    \/ InsertDocRecord
    \/ InsertNode
    \/ UpdateRoot
    \/ Commit

SpecLoad == InitLoad /\ [][NextLoad]_vars

---------------------------------------------------------------------------
(* Vocabulary of the properties. *)

IsCombinator(t) == t.kind = "Combinator"
IsSibling(t) == IsCombinator(t) /\ t.operator \in {"NextSibling", "GeneralSibling"}
IsSelectorToken(t) == t.kind \in {"TagName", "Class", "Id", "Attribute"}

\* tokenize is at the top of its loop with a character to look at.
AtChar(ch) == pc = "tokenize" /\ pos <= Len(chars) /\ chars[pos] = ch

\* The step returns an error from tokenize: no token list, no query.
LexerFails ==
    /\ pc' = "done"
    /\ tokenized'.status = "Err"
    /\ tokenized'.tokens = <<>>
    /\ result'.status = "Err"
    /\ result'.sql = NoQuery

\* The two kinds of error the interface promises (SelectorError's variants).
ErrorKinds == {"ParseError", "UnsupportedFeature"}

\* The operator spellings of an attribute clause.
OperatorSpellings ==
    {<<"=">>, <<"~", "=">>, <<"^", "=">>, <<"$", "=">>, <<"*", "=">>}

\* The position after the longest run of operator characters starting at p.
RECURSIVE OperatorRunEnd(_, _)
OperatorRunEnd(cs, p) ==
    IF p <= Len(cs) /\ cs[p] \in {"=", "~", "^", "$", "*"}
    THEN OperatorRunEnd(cs, p + 1)
    ELSE p

\* With tokenize at a '[': where the attribute name and the blanks after it
\* end, and the run of operator characters found there.
AfterAttrName == SkipWhitespace(chars, IdentEnd(chars, pos + 1))
OperatorRun == SubSeq(chars, AfterAttrName, OperatorRunEnd(chars, AfterAttrName) - 1)

---------------------------------------------------------------------------
(* C1: css_to_sql terminates on every selector: each iteration of the      *)
(* tokenize loop that does not return consumes at least one character, so  *)
(* the loop cannot go on forever nor the token list grow without bound.    *)
C1_EachIterationConsumes ==
    [][(pc = "tokenize" /\ pc' = "tokenize") =>
           (pos' > pos /\ Len(tokens') <= Len(chars))]_vars

(* C2: the wildcard is consumed and contributes no token: tokenize("*")    *)
(* ends with an empty token list, a '*' under the iterator is passed over  *)
(* in one iteration leaving the tokens as they were, and no TagName token  *)
(* has an empty name or the name "*".                                      *)
C2_WildcardNoToken ==
    [][/\ AtChar("*") => (pc' = "tokenize" /\ pos' = pos + 1 /\ tokens' = tokens)
       /\ \A k \in 1..Len(tokens') :
              tokens'[k].kind = "TagName" => tokens'[k].name \notin {<<>>, <<"*">>}
       /\ (selector = <<"*">> /\ pc' = "generate") => tokenized' = TokensOk(<<>>)]_vars

(* C3: a run of whitespace met by the tokenize loop emits exactly one      *)
(* Descendant token when the next character after the run is none of       *)
(* '>', '+', '~' and the last emitted token is not a combinator, and       *)
(* emits nothing otherwise; the loop goes on after the run.                *)
C3_WhitespaceCollapsing ==
    [][(pc = "tokenize" /\ pos <= Len(chars) /\ IsWhitespace(chars[pos])) =>
           LET after == SkipWhitespace(chars, pos)
               descendant ==
                   /\ after <= Len(chars)
                   /\ chars[after] \notin {">", "+", "~"}
                   /\ (tokens = <<>> \/ ~IsCombinator(tokens[Len(tokens)]))
           IN  /\ pc' = "tokenize"
               /\ pos' = after
               /\ tokens' = IF descendant
                            THEN Append(tokens, Combinator("Descendant"))
                            ELSE tokens]_vars

\* The index of the first sibling combinator of ts (0 if there is none).
FirstSibling(ts) ==
    IF \E k \in 1..Len(ts) : IsSibling(ts[k])
    THEN CHOOSE k \in 1..Len(ts) :
             IsSibling(ts[k]) /\ \A j \in 1..(k - 1) : ~IsSibling(ts[j])
    ELSE 0

(* C4: a selector whose tokens contain '+' or '~' never compiles: the call *)
(* returns an error and no query; when the (first) sibling combinator is   *)
(* followed by a selector token the error is of the unsupported-feature    *)
(* kind and its detail names that combinator.                              *)
C4_SiblingUnsupported ==
    (pc = "done" /\ tokenized.status = "Ok" /\ FirstSibling(tokenized.tokens) > 0) =>
        LET ts == tokenized.tokens
            k == FirstSibling(ts)
        IN  /\ result.status = "Err"
            /\ result.sql = NoQuery
            /\ (k < Len(ts) /\ IsSelectorToken(ts[k + 1])) =>
                   /\ result.err.variant = "UnsupportedFeature"
                   /\ result.err.msg =
                          IF ts[k].operator = "NextSibling"
                          THEN "Next sibling combinator (+) not yet supported"
                          ELSE "General sibling combinator (~) not yet supported"

(* C5: every failure of css_to_sql is a structured error of exactly one of *)
(* the two kinds, unsupported-feature for the sibling combinators and      *)
(* parse error for everything else; a lexer error reaches the caller as    *)
(* the lexer made it.                                                      *)
C5_StructuredError ==
    (pc = "done" /\ result.status = "Err") =>
        /\ result.err.variant \in ErrorKinds
        /\ (result.err.variant = "UnsupportedFeature") <=>
               (tokenized.status = "Ok" /\ FirstSibling(tokenized.tokens) > 0)
        /\ tokenized.status = "Err" => result.err = tokenized.err

(* C6: css_to_sql fails with the malformed-combinator error, and returns   *)
(* no query, whenever some combinator of the token sequence is the last    *)
(* token or is followed by another combinator.                             *)
C6_CombinatorNeedsOperand ==
    (/\ pc = "done"
     /\ tokenized.status = "Ok"
     /\ \E k \in 1..Len(tokenized.tokens) :
            /\ IsCombinator(tokenized.tokens[k])
            /\ (k = Len(tokenized.tokens) \/ IsCombinator(tokenized.tokens[k + 1])))
    =>  /\ result.status = "Err"
        /\ result.sql = NoQuery
        /\ (FirstSibling(tokenized.tokens) = 0 =>
                result.err.msg = "Combinator must be followed by a selector")

(* C7: parse_attribute returns an error whenever the run of operator       *)
(* characters after the attribute name is not one of the five spellings    *)
(* =, ~=, ^=, $=, *=.                                                      *)
C7_OperatorSpelling ==
    [][(AtChar("[") /\ OperatorRun # <<>> /\ OperatorRun \notin OperatorSpellings)
           => LexerFails]_vars

(* C8: an attribute clause whose operator (and optional whitespace) is     *)
(* directly followed by ']' or by the end of the input is rejected:        *)
(* tokenize returns an error, not an Attribute token with an empty value.  *)
C8_OperatorNeedsValue ==
    [][(/\ AtChar("[")
        /\ OperatorRun \in OperatorSpellings
        /\ LET v == SkipWhitespace(chars, AfterAttrName + Len(OperatorRun))
           IN  v > Len(chars) \/ chars[v] = "]")
           => LexerFails]_vars

\* With tokenize at a '[' whose clause has an operator and a value: where
\* the value starts, and whether it opens a quote that is never closed.
ValueStart ==
    SkipWhitespace(chars, AfterAttrName + (IF Len(OperatorRun) >= 2 /\ OperatorRun[2] = "="
                                            THEN 2 ELSE 1))
OpensUnclosedQuote ==
    /\ AfterAttrName <= Len(chars)
    /\ chars[AfterAttrName] = "=" \/ (Len(OperatorRun) >= 2 /\ OperatorRun[2] = "=")
    /\ ValueStart <= Len(chars)
    /\ chars[ValueStart] \in {"\"", "'"}
    /\ \A j \in (ValueStart + 1)..Len(chars) : chars[j] # chars[ValueStart]

\* With tokenize at a '[': the clause cannot be closed, because no ']'
\* follows, because the character after the name is neither ']' nor an
\* operator, or because its quote is never closed.
Unterminated ==
    \/ \A j \in (pos + 1)..Len(chars) : chars[j] # "]"
    \/ AfterAttrName > Len(chars)
    \/ chars[AfterAttrName] \notin {"]", "=", "~", "^", "$", "*"}
    \/ OpensUnclosedQuote

(* C9: an unterminated attribute clause is rejected: when the input ends   *)
(* or another character stands where the closing bracket is expected,      *)
(* an unclosed quote included, tokenize returns an error and no token      *)
(* list; an Attribute token is pushed only by an iteration that has just    *)
(* consumed the clause's ']'.                                               *)
C9_UnterminatedAttribute ==
    [][AtChar("[") =>
           /\ Unterminated => LexerFails
           /\ pc' = "tokenize" =>
                  /\ pos < pos' /\ pos' <= Len(chars) + 1
                  /\ chars[pos' - 1] = "]"
                  /\ Len(tokens') = Len(tokens) + 1
                  /\ tokens'[Len(tokens')].kind = "Attribute"
           /\ pc' # "tokenize" => LexerFails]_vars

\* An opening quote whose closing quote never occurs has been rejected.
C9_Witness ==
    /\ pc = "done"
    /\ result.status = "Err"
    /\ result.err.msg = "Expected closing bracket"
    /\ tokenized = TokensErr(result.err)
    /\ Cardinality({j \in 1..Len(chars) : chars[j] = "'"}) = 1

\* The characters the claim lists as belonging to the grammar.
InGrammar(ch) ==
    \/ IsAlphanumeric(ch)
    \/ ch \in {"-", "_", ".", "#", "[", "*", ">", "+", "~"}
    \/ IsWhitespace(ch)

\* The first character of cs outside the grammar ("" if there is none).
FirstOutside(cs) ==
    IF \E k \in 1..Len(cs) : ~InGrammar(cs[k])
    THEN cs[CHOOSE k \in 1..Len(cs) :
                ~InGrammar(cs[k]) /\ \A j \in 1..(k - 1) : InGrammar(cs[j])]
    ELSE ""

(* C10: a selector without attribute clauses that contains a character     *)
(* outside the grammar never compiles: what css_to_sql returns for it is   *)
(* an error, of the parse-error message, whose detail carries the first    *)
(* such character.                                                         *)
C10_UnexpectedCharacter ==
    (/\ pc = "done"
     /\ \A k \in 1..Len(selector) : selector[k] # "["
     /\ FirstOutside(selector) # "")
    =>  /\ result.status = "Err"
        /\ result.sql = NoQuery
        /\ result.err.msg = "Unexpected character"
        /\ result.err.ch = FirstOutside(selector)

---------------------------------------------------------------------------
(* What the code does keep of the claims above that it breaks. *)

\* C1: every iteration that does not look at a '*' consumes a character.
ConsumesUnlessWildcard ==
    [][(pc = "tokenize" /\ pc' = "tokenize" /\ ~AtChar("*")) =>
           (pos' > pos /\ Len(tokens') <= Len(tokens) + 1)]_vars

\* C3: the collapsing rule, for the runs that begin with ' ', '\t' or '\n'.
ArmWhitespaceCollapsing ==
    [][(pc = "tokenize" /\ pos <= Len(chars) /\ IsArmWhitespace(chars[pos])) =>
           LET after == SkipWhitespace(chars, pos)
               descendant ==
                   /\ after <= Len(chars)
                   /\ chars[after] \notin {">", "+", "~"}
                   /\ (tokens = <<>> \/ ~IsCombinator(tokens[Len(tokens)]))
           IN  /\ pc' = "tokenize"
               /\ pos' = after
               /\ tokens' = IF descendant
                            THEN Append(tokens, Combinator("Descendant"))
                            ELSE tokens]_vars

\* C3: "A > B", "A> B", "A >B" and "A>B" give the same three tokens, and
\* "div.container > p#intro" gives TagName, Class, Combinator(Child), TagName, Id.
ChildSpellingsAgree ==
    tokenized.status = "Ok" =>
        /\ selector \in {<<"a", " ", ">", " ", "b">>, <<"a", ">", " ", "b">>,
                         <<"a", " ", ">", "b">>, <<"a", ">", "b">>}
               => tokenized.tokens =
                      <<TagName(<<"a">>), Combinator("Child"), TagName(<<"b">>)>>
        /\ Len(selector) = 23
               => /\ Len(tokenized.tokens) = 5
                  /\ [k \in 1..5 |-> tokenized.tokens[k].kind] =
                         <<"TagName", "Class", "Combinator", "TagName", "Id">>
                  /\ tokenized.tokens[3] = Combinator("Child")

\* C4: a token sequence with a sibling combinator never compiles, and the
\* message names the first sibling combinator unless it is the last token.
SiblingNeverCompiles ==
    (pc = "done" /\ tokenized.status = "Ok" /\ FirstSibling(tokenized.tokens) > 0) =>
        LET ts == tokenized.tokens
            k == FirstSibling(ts)
        IN  /\ result.status = "Err"
            /\ result.sql = NoQuery
            /\ k < Len(ts) =>
                   result.err.msg =
                       IF ts[k].operator = "NextSibling"
                       THEN "Next sibling combinator (+) not yet supported"
                       ELSE "General sibling combinator (~) not yet supported"

\* C6: a combinator that is the last token is rejected.
LastCombinatorRejected ==
    (/\ pc = "done"
     /\ tokenized.status = "Ok"
     /\ tokenized.tokens # <<>>
     /\ IsCombinator(tokenized.tokens[Len(tokenized.tokens)]))
    =>  /\ result.status = "Err"
        /\ result.sql = NoQuery

\* C7: every run of operator characters other than the five spellings and
\* "==" is rejected.
OperatorSpellingButDoubleEquals ==
    [][(/\ AtChar("[")
        /\ OperatorRun # <<>>
        /\ OperatorRun \notin OperatorSpellings
        /\ OperatorRun # <<"=", "=">>)
           => LexerFails]_vars

\* C8: an operator followed (after optional whitespace) by the end of the
\* input is rejected.
OperatorAtEndRejected ==
    [][(/\ AtChar("[")
        /\ OperatorRun \in OperatorSpellings
        /\ SkipWhitespace(chars, AfterAttrName + Len(OperatorRun)) > Len(chars))
           => LexerFails]_vars

\* C10: a selector without attribute clauses that contains a character
\* outside the grammar and whose call returns, returns an error.
OutsideGrammarNeverCompiles ==
    (/\ pc = "done"
     /\ \A k \in 1..Len(selector) : selector[k] # "["
     /\ FirstOutside(selector) # "")
    =>  /\ result.status = "Err"
        /\ result.sql = NoQuery
        /\ result.err.msg = "Unexpected character"

---------------------------------------------------------------------------
(* String literals of the query text. *)

\* Every single quote of lit is one of a pair of adjacent quotes, so a
\* literal '<lit>' is closed only by the quote written after it.
RECURSIVE QuotesDoubled(_)
QuotesDoubled(lit) ==
    IF lit = <<>> THEN TRUE
    ELSE IF Head(lit) # "'" THEN QuotesDoubled(Tail(lit))
    ELSE Len(lit) >= 2 /\ lit[2] = "'" /\ QuotesDoubled(Tail(Tail(lit)))

\* The string a literal '<lit>' denotes: each pair of quotes is one quote.
RECURSIVE Denoted(_)
Denoted(lit) ==
    IF lit = <<>> THEN <<>>
    ELSE IF Head(lit) = "'" /\ Len(lit) >= 2 /\ lit[2] = "'"
         THEN <<"'">> \o Denoted(Tail(Tail(lit)))
         ELSE <<Head(lit)>> \o Denoted(Tail(lit))

HasQuote(s) == \E k \in 1..Len(s) : s[k] = "'"

\* The texts of token t that generate_sql writes between quotes.
TokenTexts(t) ==
    IF t.kind = "Combinator" THEN {}
    ELSE {t.name} \cup (IF t.value.some /\ t.operator # "Exists" THEN {t.value.v} ELSE {})

\* The selector has a single quote outside every attribute clause.
QuoteOutsideBrackets ==
    /\ HasQuote(selector)
    /\ \A k \in 1..Len(selector) : selector[k] # "["

---------------------------------------------------------------------------
(* What the joins of a combinator select from a table of nodes. *)

\* "SELECT id FROM nodes WHERE parent_id = <anchor>.id"
CteSeed(parent, anchor_id) == {n \in DOMAIN parent : parent[n] = anchor_id}

\* No row is added by the recursive part.
CteStepNone(parent, found) == {}

\* "SELECT n.id FROM nodes n JOIN descendants d ON n.parent_id = d.id"
CteStep(parent, found) == {n \in DOMAIN parent : parent[n] \in found}

\* WITH RECURSIVE descendants AS (<seed> UNION ALL <step>): the rows found
\* last are joined again until none is added.
RECURSIVE Descendants(_, _, _)
Descendants(parent, found, last) ==
    IF last = {} THEN found
    ELSE LET added == CteStep(parent, last)
         IN  Descendants(parent, found \cup added, added)

\* The ids the alias of join ranges over when its anchor is the row anchor_id.
JoinRows(join, parent, anchor_id) ==
    CASE join.on = "parent_id" -> {n \in DOMAIN parent : parent[n] = anchor_id}
      [] join.on = "descendants" ->
             {n \in DOMAIN parent :
                  n \in Descendants(parent, CteSeed(parent, anchor_id),
                                    CteSeed(parent, anchor_id))}

\* Tables of at most MaxNodes nodes.
MaxNodes == 4

NodeIds == 1..MaxNodes

\* Following parent_id from n ends at NULL within k links.
RECURSIVE EndsAtRoot(_, _, _)
EndsAtRoot(parent, n, k) ==
    \/ n = NULL
    \/ k > 0 /\ EndsAtRoot(parent, parent[n], k - 1)

\* The rooted acyclic tables: every node is a root or has a chain of parents
\* up to a root (one tree, or the trees of several documents).
NodeTables ==
    {parent \in [NodeIds -> NodeIds \cup {NULL}] :
         \A n \in NodeIds : EndsAtRoot(parent, n, MaxNodes)}

\* The nodes on the chain of parents of n.
RECURSIVE Ancestors(_, _)
Ancestors(parent, n) ==
    IF parent[n] = NULL THEN {}
    ELSE {parent[n]} \cup Ancestors(parent, parent[n])

\* The rows each kind of join selects, for every table and anchor node.
RowsOf ==
    [on \in {"parent_id", "descendants"} |->
        [parent \in NodeTables |->
            [anchor \in NodeIds |-> JoinRows([on |-> on], parent, anchor)]]]

\* The children of every node, and the nodes below every node.
ChildrenOf ==
    [parent \in NodeTables |->
        [anchor \in NodeIds |-> {n \in NodeIds : parent[n] = anchor}]]
BelowOf ==
    [parent \in NodeTables |->
        [anchor \in NodeIds |-> {n \in NodeIds : anchor \in Ancestors(parent, n)}]]

(* C12: over every rooted acyclic table of nodes and every anchor node,    *)
(* the alias a Child combinator introduces ranges over exactly the nodes   *)
(* whose parent_id is the anchor's id, and the alias a Descendant          *)
(* combinator introduces over exactly the nodes that have the anchor among *)
(* their ancestors; the anchor is the one current at the combinator.       *)
C12_CombinatorSemantics ==
    [][(pc = "generate" /\ pc' = "generate" /\ IsCombinator(tokens[i])) =>
           LET join == sql_joins'[Len(sql_joins')]
           IN  /\ Len(sql_joins') = Len(sql_joins) + 1
               /\ join.table = "nodes"
               /\ join.anchor = current_table
               /\ join.alias = current_table'
               /\ join.on \in DOMAIN RowsOf
               /\ RowsOf[join.on] = IF tokens[i].operator = "Child"
                                    THEN ChildrenOf
                                    ELSE BelowOf]_vars

\* A query is returned that joins both the children and the descendants of
\* an anchor.
C12_Witness ==
    /\ pc = "done"
    /\ result.status = "Ok"
    /\ \E j, k \in 1..Len(result.sql.joins) :
           /\ result.sql.joins[j].on = "parent_id"
           /\ result.sql.joins[k].on = "descendants"
    /\ \E parent \in NodeTables : \E n \in NodeIds : Cardinality(Ancestors(parent, n)) > 1

---------------------------------------------------------------------------
(* What the predicates of a class select among attribute values. *)

\* v LIKE pat: '%' stands for any run of characters, '_' for any one.
RECURSIVE Like(_, _)
Like(v, pat) ==
    IF pat = <<>> THEN v = <<>>
    ELSE IF Head(pat) = "%"
         THEN \E k \in 0..Len(v) : Like(SubSeq(v, k + 1, Len(v)), Tail(pat))
         ELSE /\ v # <<>>
              /\ Head(pat) = "_" \/ Head(pat) = Head(v)
              /\ Like(Tail(v), Tail(pat))

\* "(<a>.value = '<lit>' OR <a>.value LIKE '% <lit>' OR <a>.value LIKE
\* '<lit> %' OR <a>.value LIKE '% <lit> %')" on the value v.
WordHolds(lit, v) ==
    \/ v = Denoted(lit)
    \/ Like(v, <<"%", " ">> \o Denoted(lit))
    \/ Like(v, Denoted(lit) \o <<" ", "%">>)
    \/ Like(v, <<"%", " ">> \o Denoted(lit) \o <<" ", "%">>)

\* Attribute values of at most MaxValueLen characters.
MaxValueLen == 4

AttrValues == SeqsUpTo({"a", "b", "_", " "}, MaxValueLen)

\* The words of v: the stretches between its spaces.
Words(v) ==
    {SubSeq(v, from, to - 1) : <<from, to>> \in
        {ft \in (1..(Len(v) + 1)) \X (1..(Len(v) + 1)) :
            /\ ft[1] <= ft[2]
            /\ ft[1] = 1 \/ v[ft[1] - 1] = " "
            /\ ft[2] = Len(v) + 1 \/ v[ft[2]] = " "
            /\ \A k \in ft[1]..(ft[2] - 1) : v[k] # " "}}

\* generate_sql consumes a Class token in this step.
AtClass == pc = "generate" /\ i <= Len(tokens) /\ tokens[i].kind = "Class"

(* C13: for every class name c the lexer produces and every attribute      *)
(* value v, the four-way predicate emitted for c is true of v exactly when *)
(* c is one of the space-separated words of v.                             *)
C13_ClassListSemantics ==
    [][AtClass =>
           LET word == where_clauses'[Len(where_clauses')]
           IN  /\ word.op = "word"
               /\ \A v \in AttrValues :
                      WordHolds(word.lit, v) <=> (tokens[i].name \in Words(v))]_vars

\* C13: the same for the class names without an underscore.
ClassListSemanticsNoUnderscore ==
    [][(AtClass /\ \A k \in 1..Len(tokens[i].name) : tokens[i].name[k] # "_") =>
           LET word == where_clauses'[Len(where_clauses')]
           IN  /\ word.op = "word"
               /\ \A v \in AttrValues :
                      WordHolds(word.lit, v) <=> (tokens[i].name \in Words(v))]_vars

---------------------------------------------------------------------------
(* Attribute clauses. *)

\* The operator each spelling stands for.
OperatorNamed(run) ==
    CASE run = <<"=">> -> "Equals"
      [] run = <<"~", "=">> -> "WordMatch"
      [] run = <<"^", "=">> -> "StartsWith"
      [] run = <<"$", "=">> -> "EndsWith"
      [] run = <<"*", "=">> -> "Contains"

\* The comparison generate_sql writes for each operator.
ComparisonOf(operator) ==
    CASE operator = "Equals" -> "="
      [] operator = "WordMatch" -> "word"
      [] operator = "StartsWith" -> "prefix"
      [] operator = "EndsWith" -> "suffix"
      [] operator = "Contains" -> "contains"

\* With tokenize at a '[' whose clause has an operator and a value: the text
\* between the quotes of the value, or the identifier that is the value.
ValueText ==
    IF ValueStart <= Len(chars) /\ chars[ValueStart] \in {"\"", "'"}
    THEN LET close == CHOOSE j \in (ValueStart + 1)..Len(chars) :
                          /\ chars[j] = chars[ValueStart]
                          /\ \A k \in (ValueStart + 1)..(j - 1) : chars[k] # chars[ValueStart]
         IN  SubSeq(chars, ValueStart + 1, close - 1)
    ELSE LET end == CHOOSE e \in ValueStart..(Len(chars) + 1) :
                        /\ \A k \in ValueStart..(e - 1) : IsIdentChar(chars[k])
                        /\ e = Len(chars) + 1 \/ ~IsIdentChar(chars[e])
         IN  SubSeq(chars, ValueStart, end - 1)

\* generate_sql consumes an Attribute token in this step.
AtAttribute == pc = "generate" /\ i <= Len(tokens) /\ tokens[i].kind = "Attribute"

(* C14: the Attribute token of every clause the lexer accepts has the      *)
(* operator Exists exactly when it has no value; a clause spelled with =,  *)
(* ~=, ^=, $=, *= has the operator Equals, WordMatch, StartsWith,          *)
(* EndsWith, Contains and for value the text between the quotes or the     *)
(* unquoted identifier; for the token's fresh attribute alias the          *)
(* generator emits the name predicate always, one value predicate of the   *)
(* operator's comparison when the value is present and none when absent.   *)
C14_AttributeClause ==
    [][/\ (AtChar("[") /\ pc' = "tokenize") =>
              LET token == tokens'[Len(tokens')]
              IN  /\ token.kind = "Attribute"
                  /\ (token.operator = "Exists") <=> ~token.value.some
                  /\ (token.operator = "Exists") <=> (OperatorRun = <<>>)
                  /\ OperatorRun \in OperatorSpellings =>
                         /\ token.operator = OperatorNamed(OperatorRun)
                         /\ token.value = Some(ValueText)
       /\ AtAttribute =>
              LET token == tokens[i]
                  alias == AttrAlias(join_count')
                  emitted == SubSeq(where_clauses', Len(where_clauses) + 1,
                                    Len(where_clauses'))
              IN  /\ SubSeq(where_clauses', 1, Len(where_clauses)) = where_clauses
                  /\ \A k \in 1..Len(sql_joins) : sql_joins[k].alias # alias
                  /\ sql_joins'[Len(sql_joins')].alias = alias
                  /\ Len(emitted) = IF token.value.some THEN 2 ELSE 1
                  /\ emitted[1].alias = alias
                  /\ emitted[1].column = "name"
                  /\ emitted[1].op = "="
                  /\ Denoted(emitted[1].lit) = token.name
                  /\ token.value.some =>
                         /\ emitted[2].alias = alias
                         /\ emitted[2].column = "value"
                         /\ emitted[2].op = ComparisonOf(token.operator)
                         /\ Denoted(emitted[2].lit) = token.value.v]_vars

\* A query is returned for a clause with a value and the operator ^= or $=.
C14_Witness ==
    /\ pc = "done"
    /\ result.status = "Ok"
    /\ \E k \in 1..Len(tokenized.tokens) :
           /\ tokenized.tokens[k].kind = "Attribute"
           /\ tokenized.tokens[k].operator \in {"StartsWith", "EndsWith"}
           /\ tokenized.tokens[k].value.some
           /\ tokenized.tokens[k].value.v # <<>>
    /\ \E k \in 1..Len(result.sql.where) : result.sql.where[k].op \in {"prefix", "suffix"}

---------------------------------------------------------------------------
(* The shape of the returned query. *)

WhitespaceOnly(s) == \A k \in 1..Len(s) : IsWhitespace(s[k])

(* C15: a selector that yields no tokens (empty, or whitespace only)       *)
(* compiles to the select-all query, with no WHERE clause and no join;     *)
(* every query returned for a non-empty token sequence has a WHERE clause  *)
(* with at least one predicate.                                            *)
C15_EmptySelector ==
    /\ (pc = "done" /\ WhitespaceOnly(selector)) => tokenized = TokensOk(<<>>)
    /\ (pc = "done" /\ tokenized = TokensOk(<<>>)) =>
           /\ result = Ok(SelectAll)
           /\ result.sql.where = <<>>
           /\ result.sql.joins = <<>>
           /\ ~result.sql.distinct
    /\ (pc = "done" /\ result.status = "Ok" /\ tokenized.tokens # <<>>) =>
           /\ result.sql.where # <<>>
           /\ result.sql # SelectAll

\* A selector of whitespace only has been compiled to the select-all query.
C15_Witness ==
    /\ pc = "done"
    /\ selector # <<>>
    /\ WhitespaceOnly(selector)
    /\ result = Ok(SelectAll)

---------------------------------------------------------------------------
(* Aliases and anchors. *)

\* The tokens of ts among the first n that are not tag names.
Joining(ts, n) == {k \in 1..n : ts[k].kind # "TagName"}

\* The aliases of a query under construction: the FROM alias and the joins'.
AliasesOf(joins) == <<[t |-> "n", k |-> 1]>> \o [k \in 1..Len(joins) |-> joins[k].alias]

PairwiseDistinct(seq) ==
    \A j, k \in 1..Len(seq) : j # k => seq[j] # seq[k]

(* C17: the join counter is 1 when generate_sql starts, never decreases,   *)
(* grows by exactly one for each Class, Id, Attribute and Combinator token *)
(* consumed and stays for a TagName token; each join's alias carries the   *)
(* counter's new value; so the aliases of a query are pairwise distinct    *)
(* and the joins are as many as the tokens that are not tag names.         *)
C17_JoinCounter ==
    [][/\ (pc # "generate" /\ pc' = "generate") => (join_count' = 1 /\ sql_joins' = <<>>)
       /\ join_count' >= join_count
       /\ (pc = "generate" /\ pc' = "generate") =>
              /\ tokens[i].kind = "TagName" =>
                     (join_count' = join_count /\ sql_joins' = sql_joins)
              /\ tokens[i].kind # "TagName" =>
                     /\ join_count' = join_count + 1
                     /\ Len(sql_joins') = Len(sql_joins) + 1
                     /\ SubSeq(sql_joins', 1, Len(sql_joins)) = sql_joins
                     /\ sql_joins'[Len(sql_joins')].alias =
                            [t |-> IF IsCombinator(tokens[i]) THEN "n" ELSE "a",
                             k |-> join_count']
              /\ PairwiseDistinct(AliasesOf(sql_joins'))
              /\ Len(sql_joins') = Cardinality(Joining(tokens, i))
       /\ (pc' = "done" /\ result'.status = "Ok" /\ tokens # <<>>) =>
              /\ PairwiseDistinct(AliasesOf(result'.sql.joins))
              /\ Len(result'.sql.joins) = Cardinality(Joining(tokens, Len(tokens)))]_vars

\* A query with three joins is returned for five tokens, two of them tag
\* names.
C17_Witness ==
    /\ pc = "done"
    /\ result.status = "Ok"
    /\ Len(tokenized.tokens) = 5
    /\ Len(result.sql.joins) = 3
    /\ join_count = 4

\* The alias of the last join over nodes, n1 if there is none: the alias
\* allocated by the most recent combinator.
RECURSIVE LastNodeAlias(_)
LastNodeAlias(joins) ==
    IF joins = <<>> THEN [t |-> "n", k |-> 1]
    ELSE IF joins[Len(joins)].table = "nodes" THEN joins[Len(joins)].alias
    ELSE LastNodeAlias(SubSeq(joins, 1, Len(joins) - 1))

\* The aliases a join's ON condition names besides its own are introduced
\* before it.
RefersBack(joins) ==
    \A k \in 1..Len(joins) :
        \E j \in 1..k : AliasesOf(joins)[j] = joins[k].anchor

AllLetters(s) == s # <<>> /\ \A k \in 1..Len(s) : IsAlphabetic(s[k])

(* C18: the anchor is n1 until the first combinator and afterwards the     *)
(* node alias allocated by the most recent combinator; TagName, Class, Id  *)
(* and Attribute tokens leave it alone and their predicate or join refers  *)
(* to the anchor current when they are consumed (a lone selector s of      *)
(* letters gives the one predicate n1.tag_name = 's'); the ON condition of *)
(* every join refers only to aliases introduced before it; the returned    *)
(* query selects DISTINCT the columns of the last anchor.                  *)
C18_AnchorDiscipline ==
    [][/\ (pc # "generate" /\ pc' = "generate") => current_table' = [t |-> "n", k |-> 1]
       /\ pc' = "generate" => current_table' = LastNodeAlias(sql_joins')
       /\ (pc = "generate" /\ pc' = "generate") =>
              LET token == tokens[i]
                  join == sql_joins'[Len(sql_joins')]
                  emitted == SubSeq(where_clauses', Len(where_clauses) + 1,
                                    Len(where_clauses'))
              IN  /\ IsSelectorToken(token) => current_table' = current_table
                  /\ token.kind = "TagName" =>
                         /\ Len(emitted) = 1
                         /\ emitted[1].alias = current_table
                         /\ emitted[1].column = "tag_name"
                         /\ Denoted(emitted[1].lit) = token.name
                  /\ token.kind \in {"Class", "Id", "Attribute"} =>
                         /\ join.table = "attributes"
                         /\ join.anchor = current_table
                         /\ \A k \in 1..Len(emitted) : emitted[k].alias = join.alias
                  /\ IsCombinator(token) =>
                         /\ join.table = "nodes"
                         /\ join.anchor = current_table
                         /\ current_table' = join.alias
                         /\ current_table' # current_table
                         /\ emitted = <<>>
                  /\ RefersBack(sql_joins')
       /\ (pc' = "done" /\ result'.status = "Ok" /\ tokens # <<>>) =>
              /\ result'.sql.distinct
              /\ result'.sql.columns = LastNodeAlias(result'.sql.joins)
              /\ result'.sql.columns = current_table
              /\ result'.sql.from = [t |-> "n", k |-> 1]
              /\ RefersBack(result'.sql.joins)
       /\ (pc' = "done" /\ AllLetters(selector)) =>
              /\ result'.status = "Ok"
              /\ result'.sql.joins = <<>>
              /\ result'.sql.columns = [t |-> "n", k |-> 1]
              /\ result'.sql.where =
                     <<[alias |-> [t |-> "n", k |-> 1], column |-> "tag_name",
                        op |-> "=", lit |-> selector]>>]_vars

\* A query is returned whose columns are those of an alias other than n1
\* and that has an attribute join anchored at that alias.
C18_Witness ==
    /\ pc = "done"
    /\ result.status = "Ok"
    /\ result.sql.columns # [t |-> "n", k |-> 1]
    /\ \E k \in 1..Len(result.sql.joins) :
           /\ result.sql.joins[k].table = "attributes"
           /\ result.sql.joins[k].anchor = result.sql.columns
    /\ \E k \in 1..Len(result.sql.where) :
           /\ result.sql.where[k].column = "tag_name"
           /\ result.sql.where[k].alias = result.sql.columns

---------------------------------------------------------------------------
(* Whitespace between two tokens. *)

\* The selector is "a<ws>b" for a whitespace character <ws>.
TagsApart ==
    /\ Len(selector) = 3
    /\ selector[1] = "a"
    /\ selector[3] = "b"
    /\ IsWhitespace(selector[2])

(* C19: whitespace is never an unexpected character: whichever whitespace  *)
(* character begins a run between two tokens, the run is consumed as       *)
(* whitespace, so "a<ws>b" tokenizes to TagName, Descendant, TagName for   *)
(* every whitespace character <ws> and no error names a whitespace         *)
(* character.                                                              *)
C19_WhitespaceNeverUnexpected ==
    /\ (pc = "done" /\ TagsApart) =>
           tokenized = TokensOk(<<TagName(<<"a">>), Combinator("Descendant"),
                                  TagName(<<"b">>)>>)
    /\ (pc = "done" /\ tokenized.status = "Err"
            /\ tokenized.err.msg = "Unexpected character") =>
           ~IsWhitespace(tokenized.err.ch)

\* C19: the same for the whitespace characters ' ', '\t' and '\n'.
ArmWhitespaceNeverUnexpected ==
    /\ (pc = "done" /\ TagsApart /\ IsArmWhitespace(selector[2])) =>
           tokenized = TokensOk(<<TagName(<<"a">>), Combinator("Descendant"),
                                  TagName(<<"b">>)>>)
    /\ (pc = "done" /\ tokenized.status = "Err"
            /\ tokenized.err.msg = "Unexpected character") =>
           ~IsArmWhitespace(tokenized.err.ch)

---------------------------------------------------------------------------
(* The tree a load stores. *)

\* The elements of doc, the place of element e among them in document
\* order, and the number of elements above it.
Elements(doc) == {k \in 1..Len(doc) : doc[k].element}
Place(doc, e) == Cardinality({k \in Elements(doc) : k <= e})
RECURSIVE Height(_, _)
Height(doc, e) == IF doc[e].parent = NULL THEN 0 ELSE 1 + Height(doc, doc[e].parent)

\* ns lists the elements of doc in pre-order with the ids 1, 2, ..: the
\* first has no parent and depth 0, every other has for parent an earlier
\* node, of depth one less, which is the node of its parent element.
PreOrder(doc, ns) ==
    /\ Len(ns) = Cardinality(Elements(doc))
    /\ ns # <<>>
    /\ \A k \in 1..Len(ns) : ns[k].id = k
    /\ ns[1].parent_id = None
    /\ ns[1].depth = 0
    /\ \A k \in 2..Len(ns) :
           /\ ns[k].parent_id.some
           /\ ns[k].parent_id.v \in 1..(k - 1)
           /\ ns[ns[k].parent_id.v].depth + 1 = ns[k].depth
    /\ \A e \in Elements(doc) :
           /\ ns[Place(doc, e)].depth = Height(doc, e)
           /\ doc[e].parent # NULL =>
                  ns[Place(doc, e)].parent_id = Some(Place(doc, doc[e].parent))

\* The rows of table whose id is id.
RowsWithId(table, id) == {r \in table : r.id = id}

\* In the database now, the nodes ns are stored as document doc under the
\* ids of map: one row each, of that document, whose parent_id is the row id
\* of the node's parent (NULL for the first node only), and the document's
\* root_node_id is the row id of the first node.
StoredAs(now, doc, ns, map) ==
    /\ DOMAIN map = {ns[k].id : k \in 1..Len(ns)}
    /\ \A j, k \in 1..Len(ns) : j # k => map[ns[j].id] # map[ns[k].id]
    /\ {r \in now.nodes : r.document_id = doc} =
           {[id |-> map[ns[k].id],
             document_id |-> doc,
             parent_id |-> IF k = 1 THEN NULL ELSE map[ns[k].parent_id.v],
             depth |-> ns[k].depth] : k \in 1..Len(ns)}
    /\ \A r \in now.nodes :
           (r.document_id = doc /\ r.id # map[ns[1].id]) =>
               /\ r.parent_id # NULL
               /\ \E parent \in RowsWithId(now.nodes, r.parent_id) :
                      /\ parent.document_id = doc
                      /\ parent.depth + 1 = r.depth
    /\ \A r \in now.nodes : Cardinality(RowsWithId(now.nodes, r.id)) = 1
    /\ RowsWithId(now.documents, doc) = {[id |-> doc, root_node_id |-> map[ns[1].id]]}

(* C20: the node list of either parser is the pre-order of the document's  *)
(* elements with the ids 1..n in list order, the first node without parent *)
(* at depth 0, every other node's parent an earlier node of depth one      *)
(* less; when insert_document succeeds every stored node but the first has *)
(* for parent_id the stored id of its parent, never NULL, in the same      *)
(* document, and root_node_id, NULL while nodes are inserted, is the       *)
(* stored id of the first node.                                            *)
C20_TreeShapePreserved ==
    [][/\ (load_pc = "idle" /\ load_pc' = "begin") => PreOrder(document', nodes')
       /\ (load_pc = "nodes" /\ at <= Len(nodes)) =>
              RowsWithId(db.documents, doc_id) = {[id |-> doc_id, root_node_id |-> NULL]}
       /\ (load_pc = "commit" /\ loaded'.status = "Ok") =>
              /\ loaded'.doc_id = doc_id
              /\ StoredAs(db', doc_id, nodes, id_map)]_vars

\* A second document has been loaded, with a node two levels below its
\* root, under row ids that are not the parser's ids.
C20_Witness ==
    /\ load_pc = "idle"
    /\ loaded = Loaded(MaxDocuments)
    /\ ~txn.open
    /\ \E root, r \in db.nodes :
           /\ root.document_id = loaded.doc_id
           /\ root.parent_id = NULL
           /\ root.id > 1
           /\ r.document_id = loaded.doc_id
           /\ r.depth = 2
           /\ r.parent_id > root.id

---------------------------------------------------------------------------
(* The transaction of insert_document. *)

\* The step returns from a call whose BEGIN TRANSACTION has succeeded.
ReturnsAfterBegin ==
    /\ load_pc \in {"doc", "nodes", "commit"}
    /\ load_pc' = "idle"

\* The statements of log that end a transaction, in the order executed.
Terminating(log) == SelectSeq(log, LAMBDA st : st.sql \in {"COMMIT", "ROLLBACK"})

IssuedRollback(log) == \E k \in 1..Len(log) : log[k].sql = "ROLLBACK"

(* C21: once BEGIN TRANSACTION has succeeded, every return of              *)
(* insert_document has executed exactly one terminating statement: Ok is   *)
(* returned only after COMMIT succeeded, every Err return (a failure of    *)
(* COMMIT included) has executed a ROLLBACK, and no call returns with its  *)
(* transaction still open.                                                 *)
C21_TransactionBracketing ==
    [][ReturnsAfterBegin =>
           /\ Len(Terminating(issued')) = 1
           /\ loaded'.status = "Ok" =>
                  Terminating(issued') = <<[sql |-> "COMMIT", ok |-> TRUE]>>
           /\ loaded'.status = "Err" => IssuedRollback(issued')
           /\ ~txn'.open]_vars

\* C21: the same for every return but the one after a failed COMMIT; the
\* transaction is still open only if the ROLLBACK itself failed.
BracketingUnlessCommitFails ==
    [][(ReturnsAfterBegin /\ ~(load_pc = "commit" /\ loaded'.status = "Err")) =>
           /\ Len(Terminating(issued')) = 1
           /\ loaded'.status = "Ok" =>
                  Terminating(issued') = <<[sql |-> "COMMIT", ok |-> TRUE]>>
           /\ loaded'.status = "Err" => IssuedRollback(issued')
           /\ txn'.open =>
                  Terminating(issued') = <<[sql |-> "ROLLBACK", ok |-> FALSE]>>]_vars

\* C21: a failed COMMIT is the only terminating statement of its call, and
\* the call returns Err with the transaction open.
CommitFailureLeavesOpen ==
    [][(load_pc = "commit" /\ loaded'.status = "Err") =>
           /\ Terminating(issued') = <<[sql |-> "COMMIT", ok |-> FALSE]>>
           /\ ~IssuedRollback(issued')
           /\ txn'.open]_vars

====
